---------------------------- MODULE Spec2Model ----------------------------
(***************************************************************************)
(* A model of AER::MatrixProductState::State                               *)
(* (src/simulators/matrix_product_state/matrix_product_state.hpp).         *)
(*                                                                         *)
(* Four specifications share the variables:                                *)
(*   SpecConfig  set_config called any number of times;                    *)
(*   SpecSnapshot  apply_ops on lists that end in snapshots of every kind; *)
(*   SpecSample  the choice of sampling strategy made by sample_measure,   *)
(*               on registers of up to MaxSampleQubits qubits, described   *)
(*               by what the choice reads (sizes, bond dimension, shots);  *)
(*   Spec        apply_ops and sample_measure on a concrete register of    *)
(*               NumQubits qubits with exact amplitudes.                   *)
(***************************************************************************)
EXTENDS Integers, Sequences, FiniteSets, TLC

VARIABLES
  truncation_threshold,   \* MPS_Tensor::truncation_threshold_  (process-wide)
  max_bond_dimension,     \* MPS_Tensor::max_bond_dimension_    (process-wide)
  json_chop_threshold,    \* MPS::json_chop_threshold_          (process-wide)
  omp_threshold,          \* MPS::omp_threshold_                (process-wide)
  omp_threads,            \* MPS::omp_threads_                  (process-wide)
  sample_measure_alg,     \* MPS::sample_measure_alg_           (process-wide)
  last_config,            \* the config object of the last set_config call
  params_before,          \* the parameters as the last set_config call found them
  sel,                    \* the last calls of sample_measure (SpecSample)
  qreg,                   \* BaseState::qreg_, the MPS register
  creg,                   \* BaseState::creg_, the classical memory and register
  data,                   \* result.data, the snapshots added
  ops,                    \* the list given to apply_ops
  pos,                    \* the turn of its loop, from 1
  status,                 \* "idle", "running", "returned" or "thrown"
  error,                  \* the exception that ended apply_ops, <<>> for none
  entry,                  \* the state apply_ops was called in
  last,                   \* the last turn of the loop: its op, the state before it
  sampled,                \* the last call of sample_measure on the register
  init_call               \* the last call of initialize_qreg(num_qubits, state)

configVars == <<truncation_threshold, max_bond_dimension, json_chop_threshold,
                omp_threshold, omp_threads, sample_measure_alg, last_config,
                params_before>>

vars == <<truncation_threshold, max_bond_dimension, json_chop_threshold,
          omp_threshold, omp_threads, sample_measure_alg, last_config,
          params_before, sel, qreg, creg, data, ops, pos, status, error,
          entry, last, sampled, init_call>>

runVars == <<qreg, creg, data, ops, pos, status, error, entry, last, sampled,
             init_call>>

(***************************************************************************)
(* Bounds of the model.                                                    *)
(***************************************************************************)
\* Largest register whose sampling strategy is chosen in SpecSample.
MaxSampleQubits == 28
\* Shot counts 0..MaxShots are tried for every register size; the shot
\* counts next to each heuristic threshold are added to them.
MaxShots == 3
\* Qubits of the register of Spec, at least 2.
NumQubits == 2
\* Bits of its classical memory and of its classical register.
NumClbits == 1
\* Longest op list given to apply_ops.
MaxOps == 3
\* Most shots asked of sample_measure on the register of Spec.
MaxRegShots == 2
\* Most snapshot ops in a list given to apply_ops in SpecSnapshot.
MaxSnapshots == 2

(***************************************************************************)
(* Decimal arithmetic.  The heuristic of sample_measure compares           *)
(* shots < c * pow(r, n - 10) in double precision, c and r being decimal   *)
(* literals.  The model decides the same comparison exactly, on natural    *)
(* numbers written as sequences of decimal digits, least significant       *)
(* first and without leading zeros (the products exceed 32 bits).  For     *)
(* every n in 10..29 and every integer shot count the exact comparison    *)
(* and the double-precision one agree: no c * r^(n-10) is within rounding  *)
(* distance of an integer.                                                 *)
(***************************************************************************)
RECURSIVE ToDigits(_)
ToDigits(n) == IF n = 0 THEN <<>> ELSE <<n % 10>> \o ToDigits(n \div 10)

RECURSIVE FromDigits(_)
FromDigits(ds) == IF ds = <<>> THEN 0 ELSE Head(ds) + 10 * FromDigits(Tail(ds))

RECURSIVE MulDigits(_, _, _)
MulDigits(ds, k, carry) ==
  IF ds = <<>> THEN ToDigits(carry)
  ELSE LET v == Head(ds) * k + carry
       IN  <<v % 10>> \o MulDigits(Tail(ds), k, v \div 10)

RECURSIVE PowDigits(_, _, _)
\* the digits of c * r^e
PowDigits(c, r, e) ==
  IF e = 0 THEN ToDigits(c) ELSE MulDigits(PowDigits(c, r, e - 1), r, 0)

\* the digits of ds * 10^k
ShiftDigits(ds, k) == IF ds = <<>> THEN <<>> ELSE [i \in 1..k |-> 0] \o ds

RECURSIVE LessFrom(_, _, _)
\* a < b for two digit sequences of one length, compared from digit i down
LessFrom(a, b, i) ==
  IF i = 0 THEN FALSE
  ELSE IF a[i] # b[i] THEN a[i] < b[i]
  ELSE LessFrom(a, b, i - 1)

LessDigits(a, b) ==
  IF Len(a) # Len(b) THEN Len(a) < Len(b) ELSE LessFrom(a, b, Len(a))

\* c10 / 10 * (r100 / 100)^e as a fraction: its numerator's digits; its
\* denominator is 10^(2e+1)
ThresholdDigits ==
  [c10 \in {5, 25, 30, 120} |->
    [r100 \in {165, 175, 185} |->
      [e \in 0..(MaxSampleQubits + 1) |-> PowDigits(c10, r100, e)]]]

\* shots < (c10 / 10) * pow(r100 / 100, e), the test of lines 782, 787, 792
\* and 797 with c and r written in tenths and hundredths
ShotsBelow(shots, c10, r100, e) ==
  LessDigits(ShiftDigits(ToDigits(shots), 2 * e + 1), ThresholdDigits[c10][r100][e])

(***************************************************************************)
(* sample_measure: the choice of the sampling strategy (lines 765-802).    *)
(***************************************************************************)
PROB == "PROB"
APPLY_MEASURE == "APPLY_MEASURE"
HEURISTIC == "HEURISTIC"
Sample_measure_alg == {PROB, APPLY_MEASURE, HEURISTIC}

\* the two functions sample_measure returns through
UsingProbabilities == "sample_measure_using_probabilities"
UsingApplyMeasure == "sample_measure_using_apply_measure"

\* lines 779-802: the HEURISTIC policy for at most 26 sampled qubits
heuristic_strategy_band8(num_qubits, max_bond_dim, shots) ==
  IF num_qubits < 10 THEN UsingProbabilities
  ELSE IF max_bond_dim <= 2 THEN
    IF ShotsBelow(shots, 120, 185, num_qubits - 10)
    THEN UsingApplyMeasure ELSE UsingProbabilities
  ELSE IF max_bond_dim <= 4 THEN
    IF ShotsBelow(shots, 30, 175, num_qubits - 10)
    THEN UsingApplyMeasure ELSE UsingProbabilities
  ELSE IF max_bond_dim < 8 THEN
    IF ShotsBelow(shots, 25, 165, num_qubits - 10)
    THEN UsingApplyMeasure ELSE UsingProbabilities
  ELSE IF max_bond_dim <= 16 THEN
    IF ShotsBelow(shots, 5, 175, num_qubits - 10)
    THEN UsingApplyMeasure ELSE UsingProbabilities
  ELSE UsingProbabilities

heuristic_strategy(num_qubits, max_bond_dim, shots) ==
  IF num_qubits < 10 THEN UsingProbabilities
  ELSE IF max_bond_dim <= 2 THEN
    IF ShotsBelow(shots, 120, 185, num_qubits - 10)
    THEN UsingApplyMeasure ELSE UsingProbabilities
  ELSE IF max_bond_dim <= 4 THEN
    IF ShotsBelow(shots, 30, 175, num_qubits - 10)
    THEN UsingApplyMeasure ELSE UsingProbabilities
  ELSE IF max_bond_dim <= 8 THEN
    IF ShotsBelow(shots, 25, 165, num_qubits - 10)
    THEN UsingApplyMeasure ELSE UsingProbabilities
  ELSE IF max_bond_dim <= 16 THEN
    IF ShotsBelow(shots, 5, 175, num_qubits - 10)
    THEN UsingApplyMeasure ELSE UsingProbabilities
  ELSE UsingProbabilities

sample_measure_strategy_gt27(alg, num_qubits, max_bond_dim, shots) ==
  IF alg = PROB THEN UsingProbabilities
  ELSE IF alg = APPLY_MEASURE \/ num_qubits > 27 THEN UsingApplyMeasure
  ELSE heuristic_strategy(num_qubits, max_bond_dim, shots)

sample_measure_strategy_size_first(alg, num_qubits, max_bond_dim, shots) ==
  IF num_qubits > 26 THEN UsingApplyMeasure
  ELSE IF num_qubits < 10 THEN UsingProbabilities
  ELSE IF alg = PROB THEN UsingProbabilities
  ELSE IF alg = APPLY_MEASURE THEN UsingApplyMeasure
  ELSE heuristic_strategy(num_qubits, max_bond_dim, shots)

\* lines 765-771, then the heuristic; num_qubits is qubits.size() (line 765)
\* and max_bond_dim is qreg_.get_max_bond_dimensions() (line 777)
sample_measure_strategy(alg, num_qubits, max_bond_dim, shots) ==
  IF alg = PROB THEN UsingProbabilities
  ELSE IF alg = APPLY_MEASURE \/ num_qubits > 26 THEN UsingApplyMeasure
  ELSE heuristic_strategy(num_qubits, max_bond_dim, shots)

(***************************************************************************)
(* set_config (lines 392-438).  A config object is a record with one      *)
(* field per key: <<>> when the key is absent, <<v>> when it is present    *)
(* with value v.  A double is written <<m, e>> for m * 10^(-e); an         *)
(* unsigned 64-bit integer is written as its decimal digits.               *)
(***************************************************************************)
ConfigKeys == {"matrix_product_state_truncation_threshold",
               "matrix_product_state_max_bond_dimension",
               "chop_threshold", "mps_parallel_threshold",
               "mps_omp_threads", "mps_sample_measure_algorithm"}

\* JSON::get_value(var, key, config): whether the key is there, and its value
JSON_has(config, key) == config[key] # <<>>
JSON_value(config, key) == config[key][1]

RECURSIVE WholePart(_, _)
\* the whole part of m * 10^(-e)
WholePart(m, e) == IF e = 0 THEN m ELSE WholePart(m \div 10, e - 1)

\* a JSON number read into a uint_t variable (line 407) and handed on as a
\* double: the fraction is dropped
AsUint(d) == <<WholePart(d[1], d[2]), 0>>

\* 2^64 - 1 = 18446744073709551615, least significant digit first
UINT64_MAX == <<5, 1, 6, 1, 5, 5, 9, 0, 7, 3, 7, 0, 4, 4, 7, 6, 4, 4, 8, 1>>

\* a rule that takes every unrecognized name for the heuristic
config_sample_measure_alg_reset(config, before) ==
  IF JSON_has(config, "mps_sample_measure_algorithm")
  THEN LET alg == JSON_value(config, "mps_sample_measure_algorithm")
       IN  IF alg = "mps_probabilities" THEN PROB
           ELSE IF alg = "mps_apply_measure" THEN APPLY_MEASURE
           ELSE HEURISTIC
  ELSE before

\* lines 428-437: the algorithm left by a config, from the one before it
config_sample_measure_alg(config, before) ==
  IF JSON_has(config, "mps_sample_measure_algorithm")
  THEN LET alg == JSON_value(config, "mps_sample_measure_algorithm")
       IN  IF alg = "mps_probabilities" THEN PROB
           ELSE IF alg = "mps_apply_measure" THEN APPLY_MEASURE
           ELSE before
  ELSE HEURISTIC

\* lines 400-404
config_max_bond_dimension_keep(config, before) ==
  IF JSON_has(config, "matrix_product_state_max_bond_dimension")
  THEN ToDigits(JSON_value(config, "matrix_product_state_max_bond_dimension"))
  ELSE before

config_max_bond_dimension(config, before) ==
  IF JSON_has(config, "matrix_product_state_max_bond_dimension")
  THEN ToDigits(JSON_value(config, "matrix_product_state_max_bond_dimension"))
  ELSE UINT64_MAX

\* the six process-wide parameters
Params == <<truncation_threshold, max_bond_dimension, json_chop_threshold,
            omp_threshold, omp_threads, sample_measure_alg>>

\* their defaults: 1e-16, UINT64_MAX, 1e-8, 14, 1, HEURISTIC
Defaults == << <<1, 16>>, UINT64_MAX, <<1, 8>>, 14, 1, HEURISTIC >>

\* lines 392-438: the parameters set_config(config) leaves, from those it
\* finds
config_params(config, before) ==
  << IF JSON_has(config, "matrix_product_state_truncation_threshold")
     THEN JSON_value(config, "matrix_product_state_truncation_threshold")
     ELSE <<1, 16>>,
     config_max_bond_dimension(config, before[2]),
     IF JSON_has(config, "chop_threshold")
     THEN AsUint(JSON_value(config, "chop_threshold"))
     ELSE <<1, 8>>,
     IF JSON_has(config, "mps_parallel_threshold")
     THEN JSON_value(config, "mps_parallel_threshold")
     ELSE 14,
     IF JSON_has(config, "mps_omp_threads")
     THEN JSON_value(config, "mps_omp_threads")
     ELSE 1,
     config_sample_measure_alg(config, before[6]) >>

set_config(config) ==
  LET after == config_params(config, Params)
  IN  /\ truncation_threshold' = after[1]
      /\ max_bond_dimension' = after[2]
      /\ json_chop_threshold' = after[3]
      /\ omp_threshold' = after[4]
      /\ omp_threads' = after[5]
      /\ sample_measure_alg' = after[6]
      /\ last_config' = config
      /\ params_before' = Params

\* The config objects tried: every key absent or present.
Configs ==
  [matrix_product_state_truncation_threshold : {<<>>, << <<1, 10>> >>},
   matrix_product_state_max_bond_dimension : {<<>>, <<8>>},
   chop_threshold : {<<>>, << <<25, 1>> >>},
   mps_parallel_threshold : {<<>>, <<2>>},
   mps_omp_threads : {<<>>, <<4>>},
   mps_sample_measure_algorithm :
     {<<>>, <<"mps_probabilities">>, <<"mps_apply_measure">>, <<"mps_heuristic">>}]

NoConfig == [k \in ConfigKeys |-> <<>>]

\* those that carry at most the sample-measure-algorithm key
AlgConfigs ==
  {c \in Configs : \A k \in ConfigKeys \ {"mps_sample_measure_algorithm"} : c[k] = <<>>}

\* The parameters as the MPS classes define them, before any set_config.
InitConfig ==
  /\ truncation_threshold = Defaults[1]
  /\ max_bond_dimension = Defaults[2]
  /\ json_chop_threshold = Defaults[3]
  /\ omp_threshold = Defaults[4]
  /\ omp_threads = Defaults[5]
  /\ sample_measure_alg = Defaults[6]
  /\ last_config = NoConfig
  /\ params_before = Defaults

(***************************************************************************)
(* The register.  qreg is the state of the NumQubits qubits held by the    *)
(* MPS, written as its amplitude vector: a function on 0..2^NumQubits-1,   *)
(* index b = sum of bit_k * 2^k with bit_k the value of qubit k.  The      *)
(* gates drawn (id, x, z, h, cx, cz, swap, ccx) keep the amplitudes real,  *)
(* so they are integers up to a common positive factor; Canon divides      *)
(* that factor out and fixes the global sign, which no operation           *)
(* observes.  Measurement picks any outcome of non-zero probability.       *)
(***************************************************************************)
Dim == 2^NumQubits
Basis == 0..(Dim - 1)
AllQubits == [i \in 1..NumQubits |-> i - 1]

Bit(k, q) == (k \div (2^q)) % 2
Flip(k, q) == IF Bit(k, q) = 0 THEN k + 2^q ELSE k - 2^q

Abs(a) == IF a < 0 THEN -a ELSE a

RECURSIVE Gcd(_, _)
Gcd(a, b) == IF b = 0 THEN a ELSE Gcd(b, a % b)

RECURSIVE GcdUpTo(_, _)
GcdUpTo(v, k) == IF k < 0 THEN 0 ELSE Gcd(Abs(v[k]), GcdUpTo(v, k - 1))

Canon(v) ==
  IF \A k \in DOMAIN v : v[k] = 0 THEN v
  ELSE LET g == GcdUpTo(v, Dim - 1)
           first == CHOOSE k \in DOMAIN v :
                      v[k] # 0 /\ \A j \in DOMAIN v : j < k => v[j] = 0
           s == IF v[first] < 0 THEN -1 ELSE 1
       IN  [k \in DOMAIN v |-> (s * v[k]) \div g]

\* MPS::initialize(num_qubits): every qubit in |0>
ZeroState == [k \in Basis |-> IF k = 0 THEN 1 ELSE 0]

\* MPS::apply_x, apply_z, apply_h, apply_cnot, apply_cz, apply_swap, apply_ccx
apply_x(v, q) == [k \in Basis |-> v[Flip(k, q)]]
apply_z(v, q) == Canon([k \in Basis |-> IF Bit(k, q) = 1 THEN -v[k] ELSE v[k]])
apply_h(v, q) ==
  Canon([k \in Basis |->
           IF Bit(k, q) = 0 THEN v[k] + v[Flip(k, q)] ELSE v[Flip(k, q)] - v[k]])
apply_cnot(v, c, t) == [k \in Basis |-> IF Bit(k, c) = 1 THEN v[Flip(k, t)] ELSE v[k]]
apply_cz(v, a, b) ==
  Canon([k \in Basis |-> IF Bit(k, a) = 1 /\ Bit(k, b) = 1 THEN -v[k] ELSE v[k]])
apply_swap(v, a, b) ==
  [k \in Basis |-> IF Bit(k, a) # Bit(k, b) THEN v[Flip(Flip(k, a), b)] ELSE v[k]]
apply_ccx(v, qs) ==
  [k \in Basis |->
     IF Bit(k, qs[1]) = 1 /\ Bit(k, qs[2]) = 1 THEN v[Flip(k, qs[3])] ELSE v[k]]

\* the outcomes a measurement of qubit q can give, each with the register
\* it leaves
MeasureQubit(v, q) ==
  {<<b, Canon([k \in Basis |-> IF Bit(k, q) = b THEN v[k] ELSE 0])>> :
     b \in {b \in {0, 1} : \E k \in Basis : Bit(k, q) = b /\ v[k] # 0}}

RECURSIVE MPS_apply_measure(_, _)
\* MPS::apply_measure(qubits, rng): the listed qubits measured one after the
\* other; the pairs <<outcome, register left>> the random numbers can give
MPS_apply_measure(v, qubits) ==
  IF qubits = <<>> THEN {<< <<>>, v >>}
  ELSE UNION {{<< <<m[1]>> \o r[1], r[2] >> : r \in MPS_apply_measure(m[2], Tail(qubits))}
              : m \in MeasureQubit(v, Head(qubits))}

\* reverse_all_bits(statevector, num_qubits): entry b moves to the index
\* whose num_qubits bits are those of b in reverse order
RECURSIVE RevBits(_, _)
RevBits(b, n) == IF n = 0 THEN 0 ELSE (b % 2) * 2^(n - 1) + RevBits(b \div 2, n - 1)

\* a C++ vector is a sequence here: its entry b is statevector[b + 1]; an
\* entry past the end of a vector of the wrong length reads as 0 (such a
\* vector is rejected by its length, whatever was read)
EntryAt(statevector, b) == IF b + 1 \in DOMAIN statevector THEN statevector[b + 1] ELSE 0

\* the result is as long as the vector given
reverse_all_bits(statevector, num_qubits) ==
  [b \in 1..Len(statevector) |-> EntryAt(statevector, RevBits(b - 1, num_qubits))]

\* an MPS that takes a state vector of any length
initialize_from_statevector_fails_never(num_qubits, v) == FALSE

\* MPS::initialize_from_statevector(num_qubits, v) fails, with a diagnostic
\* and before the MPS is changed, when v is not of length 2^num_qubits
initialize_from_statevector_fails(num_qubits, v) == Len(v) # 2^num_qubits

\* MPS::initialize_from_statevector(num_qubits, v): v is in the MPS's own
\* bit order, the reverse of the external one
initialize_from_statevector(num_qubits, v) ==
  Canon([b \in Basis |-> EntryAt(reverse_all_bits(v, num_qubits), b)])

\* MPS::full_state_vector
full_state_vector(v) == v

(***************************************************************************)
(* The classical register (Base::State::creg_): memory and register bits.  *)
(***************************************************************************)
ZeroCreg == [memory |-> [i \in 1..NumClbits |-> 0], register |-> [i \in 1..NumClbits |-> 0]]

\* ClassicalRegister::check_conditional(op)
check_conditional(c, op) ==
  IF op.conditional THEN c.register[op.conditional_reg + 1] = 1 ELSE TRUE

RECURSIVE StoreBits(_, _, _)
StoreBits(bits, outcome, where) ==
  IF where = <<>> \/ outcome = <<>> THEN bits
  ELSE StoreBits([bits EXCEPT ![Head(where) + 1] = Head(outcome)],
                 Tail(outcome), Tail(where))

\* ClassicalRegister::store_measure(outcome, memory, registers)
store_measure(c, outcome, memory, registers) ==
  [memory |-> StoreBits(c.memory, outcome, memory),
   register |-> StoreBits(c.register, outcome, registers)]

\* ClassicalRegister::apply_bfunc(op): register bit op.registers[0] becomes
\* the comparison of register bit op.conditional_reg with op.bfunc_val
apply_bfunc(c, op) ==
  [c EXCEPT !.register[op.registers[1] + 1] =
     IF c.register[op.mask_bit + 1] = op.bfunc_val THEN 1 ELSE 0]

(***************************************************************************)
(* The operations, as functions of the op and of the state                 *)
(* st = [qreg, creg, data]; each gives the set of results the random       *)
(* numbers allow, a result being the state left and the exception thrown   *)
(* (a message in parts, <<>> for none).                                    *)
(***************************************************************************)
Done(st) == [qreg |-> st.qreg, creg |-> st.creg, data |-> st.data, error |-> <<>>]
Thrown(st, msg) == [qreg |-> st.qreg, creg |-> st.creg, data |-> st.data, error |-> msg]

\* lines 45-63: the op types, gate names and snapshot names declared as
\* supported
StateOpSet ==
  [optypes |-> {"gate", "measure", "reset", "initialize", "snapshot", "barrier",
                "bfunc", "roerror", "matrix", "kraus"},
   gates |-> {"id", "x", "y", "z", "s", "sdg", "h", "t", "tdg", "p", "u1",
              "u2", "u3", "u", "U", "CX", "cx", "cz", "cp", "cu1", "swap", "ccx",
              "sx"},
   snapshots |-> {"statevector", "memory", "register", "probabilities",
                  "expectation_value_pauli", "expectation_value_pauli_with_variance",
                  "expectation_value_pauli_single_shot", "expectation_value_matrix",
                  "expectation_value_matrix_with_variance",
                  "expectation_value_matrix_single_shot",
                  "density_matrix", "density_matrix_with_variance"}]

gateset_ ==
  [name \in {"id", "x", "y", "z", "s", "sdg", "h", "sx", "t", "tdg", "p", "u1",
             "u2", "u3", "u", "U", "CX", "cx", "cz", "cu1", "cp", "swap", "ccx"} |->
     CASE name \in {"p", "u1"} -> "u1"
       [] name \in {"u3", "u", "U"} -> "u3"
       [] name \in {"CX", "cx"} -> "cx"
       [] name \in {"cu1", "cp"} -> "cu1"
       [] name = "ccx" -> "mcx"
       [] OTHER -> name]

snapshotset_ ==
  [name \in {"statevector", "probabilities", "expectation_value_pauli",
             "expectation_value_matrix", "probabilities_with_variance",
             "density_matrix", "density_matrix_with_variance",
             "expectation_value_pauli_with_variance",
             "expectation_value_matrix_with_variance",
             "expectation_value_pauli_single_shot",
             "expectation_value_matrix_single_shot", "memory", "register"} |->
     CASE name = "probabilities" -> "probs"
       [] name = "expectation_value_pauli" -> "expval_pauli"
       [] name = "expectation_value_matrix" -> "expval_matrix"
       [] name = "probabilities_with_variance" -> "probs_var"
       [] name = "density_matrix" -> "densmat"
       [] name = "density_matrix_with_variance" -> "densmat_var"
       [] name = "expectation_value_pauli_with_variance" -> "expval_pauli_var"
       [] name = "expectation_value_matrix_with_variance" -> "expval_matrix_var"
       [] name = "expectation_value_pauli_single_shot" -> "expval_pauli_shot"
       [] name = "expectation_value_matrix_single_shot" -> "expval_matrix_shot"
       [] name = "memory" -> "cmemory"
       [] name = "register" -> "cregister"
       [] OTHER -> name]

\* the gates whose action keeps the amplitudes real; the ops drawn name
\* only these (and names outside gateset_)
apply_gate_unchecked(op, st) ==
  IF op.name \notin DOMAIN gateset_ THEN {Done(st)}
  ELSE LET g == gateset_[op.name]
           v == st.qreg
           q == op.qubits
       IN  {Done([st EXCEPT !.qreg =
                    CASE g = "mcx" -> apply_ccx(v, q)
                      [] g = "cx" -> apply_cnot(v, q[1], q[2])
                      [] g = "id" -> v
                      [] g = "x" -> apply_x(v, q[1])
                      [] g = "z" -> apply_z(v, q[1])
                      [] g = "h" -> apply_h(v, q[1])
                      [] g = "swap" -> apply_swap(v, q[1], q[2])
                      [] g = "cz" -> apply_cz(v, q[1], q[2])])}

apply_gate(op, st) ==
  IF op.name \notin DOMAIN gateset_
  THEN {Thrown(st, <<"MatrixProductState::State::invalid gate instruction '",
                     op.name, "'.">>)}
  ELSE LET g == gateset_[op.name]
           v == st.qreg
           q == op.qubits
       IN  {Done([st EXCEPT !.qreg =
                    CASE g = "mcx" -> apply_ccx(v, q)
                      [] g = "cx" -> apply_cnot(v, q[1], q[2])
                      [] g = "id" -> v
                      [] g = "x" -> apply_x(v, q[1])
                      [] g = "z" -> apply_z(v, q[1])
                      [] g = "h" -> apply_h(v, q[1])
                      [] g = "swap" -> apply_swap(v, q[1], q[2])
                      [] g = "cz" -> apply_cz(v, q[1], q[2])])}

\* std::sort on a copy of the list
RECURSIVE Insert(_, _)
Insert(x, s) ==
  IF s = <<>> THEN <<x>>
  ELSE IF x <= Head(s) THEN <<x>> \o s ELSE <<Head(s)>> \o Insert(x, Tail(s))

RECURSIVE Sorted(_)
Sorted(s) == IF s = <<>> THEN <<>> ELSE Insert(Head(s), Sorted(Tail(s)))

\* initialize_qreg(num_qubits, statevector), lines 362-373
initialize_qreg(num_qubits, statevector, st) ==
  IF NumQubits # num_qubits
  THEN Thrown(st, <<"MatrixProductState::State::initialize: initial state does not match qubit number">>)
  ELSE LET mps_format_state_vector == reverse_all_bits(statevector, num_qubits)
       IN  \* an exception of qreg_.initialize_from_statevector passes through
           IF initialize_from_statevector_fails(num_qubits, mps_format_state_vector)
           THEN Thrown(st, <<"MPS::initialize_from_statevector: state vector length does not match the number of qubits">>)
           ELSE Done([st EXCEPT !.qreg =
                        initialize_from_statevector(num_qubits, mps_format_state_vector)])

\* initialize_qreg(num_qubits, state) given another MPS, lines 352-360: after
\* the check nothing is done (the message under DEBUG goes to the console)
initialize_qreg_state(num_qubits, state, st) ==
  IF NumQubits # num_qubits
  THEN Thrown(st, <<"MatrixProductState::State::initialize: initial state does not match qubit number">>)
  ELSE Done(st)

apply_initialize(qubits, params, st) ==
  IF Len(qubits) = NumQubits /\ qubits = Sorted(qubits)
  THEN {initialize_qreg(Len(qubits), params, st)}
  ELSE {Thrown(st, <<"MPS_State: Partial initialization not supported yet.">>)}

apply_measure(qubits, cmemory, cregister, st) ==
  {Done([st EXCEPT !.qreg = m[2],
                   !.creg = store_measure(st.creg, m[1], cmemory, cregister)])
     : m \in MPS_apply_measure(st.qreg, qubits)}

RECURSIVE measure_reset_update(_, _, _, _)
measure_reset_update(v, qubits, final_state, meas_state) ==
  IF qubits = <<>> THEN v
  ELSE measure_reset_update(
         IF Head(meas_state) # final_state THEN apply_x(v, Head(qubits)) ELSE v,
         Tail(qubits), final_state, Tail(meas_state))

apply_reset(qubits, st) ==
  {Done([st EXCEPT !.qreg = measure_reset_update(m[2], qubits, 0, m[1])])
     : m \in MPS_apply_measure(st.qreg, qubits)}

RECURSIVE SumSquares(_, _)
SumSquares(v, S) ==
  IF S = {} THEN 0
  ELSE LET k == CHOOSE x \in S : TRUE IN v[k] * v[k] + SumSquares(v, S \ {k})

\* MPS::get_probabilities_vector: the probabilities of the outcomes of the
\* listed qubits, up to their common factor
get_probabilities_vector(v, qubits) ==
  [o \in 0..(2^Len(qubits) - 1) |->
     SumSquares(v, {k \in Basis : \A i \in 1..Len(qubits) : Bit(k, qubits[i]) = Bit(o, i - 1)})]

(***************************************************************************)
(* Snapshots.  The values come from queries of the MPS (expectation        *)
(* values, probabilities, density matrix, state vector); a query reads the *)
(* MPS and leaves it as it is.  Values are given for the unnormalised      *)
(* integer amplitudes, an expectation value as <<numerator, norm>>; the    *)
(* chop of small values changes none of them.  A snapshot is added to the  *)
(* result data as a record.                                                *)
(***************************************************************************)
\* result.data.add_average_snapshot(type, label, memory, value, variance)
add_average_snapshot(st, type, label, value, variance) ==
  Done([st EXCEPT !.data = Append(@, [kind |-> "average", type |-> type, label |-> label,
                                      memory |-> st.creg.memory, value |-> value,
                                      variance |-> variance])])

\* result.data.add_pershot_snapshot(type, label, value)
add_pershot_snapshot(st, type, label, value) ==
  Done([st EXCEPT !.data = Append(@, [kind |-> "pershot", type |-> type, label |-> label,
                                      value |-> value])])

\* the snapshot added for a SnapshotDataType
add_snapshot(st, type, name, pershot_name, label, value) ==
  CASE type = "average" -> add_average_snapshot(st, name, label, value, FALSE)
    [] type = "average_var" -> add_average_snapshot(st, name, label, value, TRUE)
    [] type = "pershot" -> add_pershot_snapshot(st, pershot_name, label, value)

RECURSIVE apply_pauli(_, _, _)
\* the amplitudes of P|psi>, P the Pauli string (letters I, X, Z) whose last
\* letter acts on the first listed qubit
apply_pauli(v, qubits, pauli) ==
  IF qubits = <<>> \/ pauli = <<>> THEN v
  ELSE LET q == Head(qubits)
           letter == pauli[Len(pauli)]
           w == CASE letter = "X" -> [k \in Basis |-> v[Flip(k, q)]]
                  [] letter = "Z" -> [k \in Basis |-> IF Bit(k, q) = 1 THEN -v[k] ELSE v[k]]
                  [] OTHER -> v
       IN  apply_pauli(w, Tail(qubits), SubSeq(pauli, 1, Len(pauli) - 1))

RECURSIVE Inner(_, _, _)
\* the sum of v[k] * w[k] over the indices k in S
Inner(v, w, S) ==
  IF S = {} THEN 0
  ELSE LET k == CHOOSE x \in S : TRUE IN v[k] * w[k] + Inner(v, w, S \ {k})

\* MPS::expectation_value_pauli(qubits, pauli_matrices)
expectation_value_pauli(v, qubits, pauli) ==
  <<Inner(v, apply_pauli(v, qubits, pauli), Basis), Inner(v, v, Basis)>>

\* MPS::expectation_value(qubits, mat), for a real 2x2 matrix on one qubit
expectation_value(v, qubits, mat) ==
  LET q == qubits[1]
      w == [k \in Basis |->
              LET k0 == IF Bit(k, q) = 0 THEN k ELSE Flip(k, q)
                  k1 == Flip(k0, q)
              IN  mat[Bit(k, q) + 1][1] * v[k0] + mat[Bit(k, q) + 1][2] * v[k1]]
  IN  <<Inner(v, w, Basis), Inner(v, v, Basis)>>

\* MPS::norm
norm(v) == Inner(v, v, Basis)

\* the index of the basis state whose listed qubits hold the bits of o, the
\* other qubits those of k
Place(k, qubits, o) ==
  LET listed == {qubits[i] : i \in DOMAIN qubits}
      FirstAt(q) == CHOOSE i \in DOMAIN qubits : qubits[i] = q /\ \A j \in 1..(i - 1) : qubits[j] # q
      bit(q) == IF q \in listed THEN Bit(o, FirstAt(q) - 1) ELSE Bit(k, q)
      RECURSIVE Sum(_)
      Sum(q) == IF q < 0 THEN 0 ELSE bit(q) * 2^q + Sum(q - 1)
  IN  Sum(NumQubits - 1)

\* MPS::density_matrix(qubits): the reduced state of the listed qubits
density_matrix(v, qubits) ==
  LET listed == {qubits[i] : i \in DOMAIN qubits}
      Rest == {k \in Basis : \A q \in listed : Bit(k, q) = 0}
      RECURSIVE Trace(_, _, _)
      Trace(i, j, S) ==
        IF S = {} THEN 0
        ELSE LET k == CHOOSE x \in S : TRUE
             IN  v[Place(k, qubits, i)] * v[Place(k, qubits, j)] + Trace(i, j, S \ {k})
      side == 0..(2^Len(qubits) - 1)
  IN  [i \in side |-> [j \in side |-> Trace(i, j, Rest)]]

RECURSIVE SumPauli(_, _, _)
\* lines 514-519: the sum of coeff * <pauli> over the components, over the
\* norm; a component is <<coeff, pauli>>
SumPauli(v, qubits, components) ==
  IF components = <<>> THEN 0
  ELSE Head(components)[1] * expectation_value_pauli(v, qubits, Head(components)[2])[1]
       + SumPauli(v, qubits, Tail(components))

\* lines 504-536
snapshot_pauli_expval(op, st, type) ==
  IF op.params_expval_pauli = <<>>
  THEN Thrown(st, <<"Invalid expval snapshot (Pauli components are empty).">>)
  ELSE add_snapshot(st, type, "expectation_value", "expectation_values", op.string_params[1],
                    <<SumPauli(st.qreg, op.qubits, op.params_expval_pauli), norm(st.qreg)>>)

RECURSIVE SumMatrix(_, _, _)
\* lines 547-559: a component is <<coeff, <<positions, mat>>, ...>>, the
\* matrix acting on the qubits of the op at the positions
SumMatrix(v, qubits, components) ==
  IF components = <<>> THEN 0
  ELSE LET param == Head(components)
           coeff == param[1]
           RECURSIVE Pairs(_)
           Pairs(i) ==
             IF i > Len(param) THEN 0
             ELSE LET sub_qubits == [j \in DOMAIN param[i][1] |-> qubits[param[i][1][j] + 1]]
                  IN  coeff * expectation_value(v, sub_qubits, param[i][2])[1] + Pairs(i + 1)
       IN  Pairs(2) + SumMatrix(v, qubits, Tail(components))

\* lines 538-575
snapshot_matrix_expval(op, st, type) ==
  IF op.params_expval_matrix = <<>>
  THEN Thrown(st, <<"Invalid matrix snapshot (components are empty).">>)
  ELSE add_snapshot(st, type, "expectation_value", "expectation_values", op.string_params[1],
                    <<SumMatrix(st.qreg, op.qubits, op.params_expval_matrix), norm(st.qreg)>>)

\* lines 577-583
snapshot_state(op, st) ==
  add_pershot_snapshot(st, "statevector", op.string_params[1], full_state_vector(st.qreg))

\* probabilities read off a register that is measured to get them
snapshot_probabilities_measuring(op, st, type) ==
  LET m == CHOOSE x \in MPS_apply_measure(st.qreg, op.qubits) : TRUE
  IN  add_average_snapshot([st EXCEPT !.qreg = m[2]], "probabilities", op.string_params[1],
                           get_probabilities_vector(st.qreg, op.qubits),
                           type = "average_var")

\* lines 585-596
snapshot_probabilities(op, st, type) ==
  add_average_snapshot(st, "probabilities", op.string_params[1],
                       get_probabilities_vector(st.qreg, op.qubits),
                       type = "average_var")

\* lines 598-623
snapshot_density_matrix(op, st, type) ==
  LET reduced_state == IF op.qubits = <<>>
                       THEN [i \in {0} |-> [j \in {0} |-> norm(st.qreg)]]
                       ELSE density_matrix(st.qreg, op.qubits)
  IN  add_snapshot(st, type, "density_matrix", "density_matrix", op.string_params[1],
                   reduced_state)

\* Base::State::snapshot_creg_memory, snapshot_creg_register
snapshot_creg_memory(op, st) ==
  add_pershot_snapshot(st, "memory", op.string_params[1], st.creg.memory)
snapshot_creg_register(op, st) ==
  add_pershot_snapshot(st, "register", op.string_params[1], st.creg.register)

\* lines 850-905
apply_snapshot(op, st) ==
  IF op.name \notin DOMAIN snapshotset_
  THEN {Thrown(st, <<"MatrixProductState::invalid snapshot instruction '",
                     op.name, "'.">>)}
  ELSE LET s == snapshotset_[op.name]
       IN  {CASE s = "statevector" -> snapshot_state(op, st)
              [] s = "cmemory" -> snapshot_creg_memory(op, st)
              [] s = "cregister" -> snapshot_creg_register(op, st)
              [] s = "probs" -> snapshot_probabilities(op, st, "average")
              [] s = "densmat" -> snapshot_density_matrix(op, st, "average")
              [] s = "expval_pauli" -> snapshot_pauli_expval(op, st, "average")
              [] s = "expval_matrix" -> snapshot_matrix_expval(op, st, "average")
              [] s = "probs_var" -> snapshot_probabilities(op, st, "average_var")
              [] s = "densmat_var" -> snapshot_density_matrix(op, st, "average_var")
              [] s = "expval_pauli_var" -> snapshot_pauli_expval(op, st, "average_var")
              [] s = "expval_matrix_var" -> snapshot_matrix_expval(op, st, "average_var")
              [] s = "expval_pauli_shot" -> snapshot_pauli_expval(op, st, "pershot")
              [] s = "expval_matrix_shot" -> snapshot_matrix_expval(op, st, "pershot")
              [] OTHER -> Thrown(st, <<"MatrixProductState::State::invalid snapshot instruction '",
                                       op.name, "'.">>)}

\* the switch of apply_ops, lines 462-495
apply_op(op, st) ==
  CASE op.type = "barrier" -> {Done(st)}
    [] op.type = "reset" -> apply_reset(op.qubits, st)
    [] op.type = "initialize" -> apply_initialize(op.qubits, op.params, st)
    [] op.type = "measure" -> apply_measure(op.qubits, op.memory, op.registers, st)
    [] op.type = "bfunc" -> {Done([st EXCEPT !.creg = apply_bfunc(st.creg, op)])}
    [] op.type = "gate" -> apply_gate(op, st)
    [] op.type = "snapshot" -> apply_snapshot(op, st)
    [] OTHER -> {Thrown(st, <<"MatrixProductState::State::invalid instruction '",
                              op.name, "'.">>)}


\* apply_ops not called yet, on a register and a classical register just
\* initialized (initialize_qreg(num_qubits), line 348)
InitRun ==
  /\ qreg = ZeroState
  /\ creg = ZeroCreg
  /\ data = <<>>
  /\ ops = <<>>
  /\ pos = 0
  /\ status = "idle"
  /\ error = <<>>
  /\ entry = [qreg |-> ZeroState, creg |-> ZeroCreg, data |-> <<>>]
  /\ last = [index |-> 0]
  /\ sampled = <<>>
  /\ init_call = <<>>

(***************************************************************************)
(* SpecConfig: set_config, called again and again.                         *)
(***************************************************************************)
SetConfig == \E config \in Configs : set_config(config) /\ UNCHANGED <<sel, runVars>>

InitC == InitConfig /\ InitRun /\ sel = <<>>
NextC == SetConfig
SpecConfig == InitC /\ [][NextC]_vars

(***************************************************************************)
(* SpecSample: sample_measure's choice of strategy.  A call is described   *)
(* by what the choice can depend on: the policy in force, the register's   *)
(* number of qubits and maximum bond dimension, the number of qubits       *)
(* sampled and the number of shots.  sel keeps the last two calls, made    *)
(* on one register (sampling leaves it as it is).                          *)
(***************************************************************************)
\* maximum bond dimensions tried: both sides of every band of the heuristic
BondDims == {1, 2, 3, 4, 5, 8, 9, 16, 17}

\* sizes of the qubit lists that sample part of the register
PartSizes == {1, 12}

SampledSizes(N) == {N} \cup {k \in PartSizes : k < N}

\* ceil(c10 / 10 * (r100 / 100)^e): the least shot count not below it
CeilThreshold(c10, r100, e) ==
  LET ds == ThresholdDigits[c10][r100][e]
      k == 2 * e + 1
      whole == IF Len(ds) > k THEN FromDigits(SubSeq(ds, k + 1, Len(ds))) ELSE 0
      exact == \A i \in 1..k : i > Len(ds) \/ ds[i] = 0
  IN  IF exact THEN whole ELSE whole + 1

Bands == {<<120, 185>>, <<30, 175>>, <<25, 165>>, <<5, 175>>}

\* shot counts tried on n sampled qubits: the small ones, and for every band
\* the last count below its threshold and the first one not below it
ShotCounts(n) ==
  (0..MaxShots) \cup
  (IF n < 10 THEN {}
   ELSE UNION {{CeilThreshold(b[1], b[2], n - 10) - 1, CeilThreshold(b[1], b[2], n - 10)}
               : b \in Bands})

Call(N, n, D, m) ==
  [state_qubits |-> N, num_qubits |-> n, max_bond_dim |-> D, shots |-> m,
   alg |-> sample_measure_alg, config |-> last_config,
   strategy |-> sample_measure_strategy(sample_measure_alg, n, D, m)]

\* a first call, on any register
SampleFirst ==
  /\ sel = <<>>
  /\ \E N \in 0..MaxSampleQubits, D \in BondDims :
       \E n \in SampledSizes(N) :
         \E m \in ShotCounts(n) : sel' = <<Call(N, n, D, m)>>
  /\ UNCHANGED <<configVars, runVars>>

\* a further call on the same register, for as many shots, on any qubit list
SampleAgain ==
  /\ sel # <<>>
  /\ LET c == sel[Len(sel)]
     IN  \E n \in SampledSizes(c.state_qubits) :
           sel' = <<c, Call(c.state_qubits, n, c.max_bond_dim, c.shots)>>
  /\ UNCHANGED <<configVars, runVars>>

\* the policy is configured before sampling starts
SetAlgConfig ==
  /\ sel = <<>>
  /\ \E config \in AlgConfigs : set_config(config)
  /\ UNCHANGED <<sel, runVars>>

InitS == InitConfig /\ InitRun /\ sel = <<>>
NextS == SetAlgConfig \/ SampleFirst \/ SampleAgain
SpecSample == InitS /\ [][NextS]_vars

Calls == {sel[i] : i \in DOMAIN sel}

(***************************************************************************)
(* The ops drawn.  LastQubit is the register's highest qubit.              *)
(***************************************************************************)
LastQubit == NumQubits - 1

Op(type, name, qubits) ==
  [type |-> type, name |-> name, qubits |-> qubits, params |-> <<>>,
   memory |-> <<>>, registers |-> <<>>, conditional |-> FALSE,
   conditional_reg |-> 0, string_params |-> <<name>>, mask_bit |-> 0,
   bfunc_val |-> 0, params_expval_pauli |-> <<>>, params_expval_matrix |-> <<>>]

\* qubit 0 in |1>, the last qubit in |0> + |1>, the others in |0>
StateVec == [b \in 1..Dim |-> IF b - 1 \in {1, 1 + 2^LastQubit} THEN 1 ELSE 0]

\* state vectors half and twice as long as the register's, entry 1 set
ShortVec == [b \in 1..(Dim \div 2) |-> IF b = 2 THEN 1 ELSE 0]
LongVec == [b \in 1..(2 * Dim) |-> IF b = 2 THEN 1 ELSE 0]

\* all qubits of the register, the last one first
DescendingQubits == [i \in 1..NumQubits |-> NumQubits - i]

\* a list as long as the register that names qubit 0 twice, in ascending order
RepeatedList == [i \in 1..NumQubits |-> IF i = 1 THEN 0 ELSE i - 2]

Ops ==
  { Op("gate", "h", <<0>>), Op("gate", "x", <<0>>), Op("gate", "cx", <<0, LastQubit>>),
    [Op("gate", "x", <<LastQubit>>) EXCEPT !.conditional = TRUE],
    Op("gate", "foo", <<0>>),
    [Op("measure", "measure", <<0>>) EXCEPT !.memory = <<0>>, !.registers = <<0>>],
    Op("reset", "reset", <<0>>), Op("reset", "reset", <<0, 0>>),
    [Op("initialize", "initialize", AllQubits) EXCEPT !.params = StateVec],
    [Op("initialize", "initialize", <<0>>) EXCEPT !.params = <<0, 1>>],
    [Op("initialize", "initialize", RepeatedList) EXCEPT !.params = StateVec],
    [Op("initialize", "initialize", DescendingQubits) EXCEPT !.params = StateVec],
    [Op("initialize", "initialize", AllQubits) EXCEPT !.params = ShortVec],
    [Op("initialize", "initialize", AllQubits) EXCEPT !.params = LongVec],
    Op("snapshot", "statevector", AllQubits), Op("snapshot", "bogus", AllQubits),
    Op("barrier", "barrier", AllQubits),
    [Op("bfunc", "bfunc", <<>>) EXCEPT !.registers = <<0>>] }

OpLists == UNION {[1..n -> Ops] : n \in 0..MaxOps}

(***************************************************************************)
(* apply_ops (lines 455-498): one step of the model is one turn of the     *)
(* loop.  An exception ends the call; the state is not used afterwards.    *)
(***************************************************************************)
State == [qreg |-> qreg, creg |-> creg, data |-> data]

NoLast == [index |-> 0]

current_op_backwards(list, i) == list[Len(list) + 1 - i]

\* line 460: the loop's op in its turn i
current_op(list, i) == list[i]

\* apply_ops called with a list of the given ones
ApplyOps(lists) ==
  /\ status = "idle"
  /\ \E list \in lists : ops' = list
  /\ pos' = 1
  /\ status' = "running"
  /\ entry' = State
  /\ UNCHANGED <<qreg, creg, data, error, last, sampled, init_call, configVars, sel>>

ApplyOpsCall == ApplyOps(OpLists)

\* a loop that undoes the call when an op throws
Turn_rollback(type) ==
  /\ status = "running"
  /\ pos <= Len(ops)
  /\ LET op == current_op(ops, pos)
         checked == check_conditional(creg, op)
     IN  /\ op.type = type
         /\ \E r \in (IF checked THEN apply_op(op, State) ELSE {Done(State)}) :
              /\ qreg' = IF r.error = <<>> THEN r.qreg ELSE entry.qreg
              /\ creg' = IF r.error = <<>> THEN r.creg ELSE entry.creg
              /\ data' = IF r.error = <<>> THEN r.data ELSE entry.data
              /\ error' = r.error
              /\ status' = IF r.error = <<>> THEN "running" ELSE "thrown"
              /\ pos' = IF r.error = <<>> THEN pos + 1 ELSE pos
              /\ last' = [index |-> pos, op |-> op, ran |-> checked, before |-> State]
  /\ UNCHANGED <<ops, entry, sampled, init_call, configVars, sel>>

\* lines 461-496 for the op of this turn, when its type is the given one
Turn(type) ==
  /\ status = "running"
  /\ pos <= Len(ops)
  /\ LET op == current_op(ops, pos)
         checked == check_conditional(creg, op)
     IN  /\ op.type = type
         /\ \E r \in (IF checked THEN apply_op(op, State) ELSE {Done(State)}) :
              /\ qreg' = r.qreg
              /\ creg' = r.creg
              /\ data' = r.data
              /\ error' = r.error
              /\ status' = IF r.error = <<>> THEN "running" ELSE "thrown"
              /\ pos' = IF r.error = <<>> THEN pos + 1 ELSE pos
              /\ last' = [index |-> pos, op |-> op, ran |-> checked, before |-> State]
  /\ UNCHANGED <<ops, entry, sampled, init_call, configVars, sel>>

Barrier == Turn("barrier")
Reset == Turn("reset")
Initialize == Turn("initialize")
Measure == Turn("measure")
Bfunc == Turn("bfunc")
Gate == Turn("gate")
Snapshot == Turn("snapshot")

ApplyOpsReturn ==
  /\ status = "running"
  /\ pos > Len(ops)
  /\ status' = "returned"
  /\ ops' = <<>>
  /\ pos' = 0
  /\ last' = NoLast
  /\ UNCHANGED <<qreg, creg, data, error, entry, sampled, init_call, configVars, sel>>

(***************************************************************************)
(* sample_measure on the register (lines 757-848).                         *)
(***************************************************************************)
RECURSIVE reg2int(_)
\* the integer MPS::sample_measure_using_probabilities gives for an outcome
reg2int(bits) == IF bits = <<>> THEN 0 ELSE Head(bits) + 2 * reg2int(Tail(bits))

RECURSIVE int2reg(_, _, _)
\* Utils::int2reg(n, base, minlen): the digits of n, least significant first,
\* padded with zeros to minlen
int2reg(n, base, minlen) ==
  IF n = 0 /\ minlen <= 0 THEN <<>>
  ELSE <<n % base>> \o int2reg(n \div base, base, minlen - 1)

\* a conversion that gives the digits of each value without padding
sample_measure_using_probabilities_unpadded(v, qubits, shots) ==
  LET vals == {reg2int(m[1]) : m \in MPS_apply_measure(v, qubits)}
  IN  {[all_samples |-> [i \in 1..shots |-> int2reg(allbit_samples[i], 2, 0)],
        qreg |-> v] : allbit_samples \in [1..shots -> vals]}

\* lines 805-831
sample_measure_using_probabilities(v, qubits, shots) ==
  LET vals == {reg2int(m[1]) : m \in MPS_apply_measure(v, qubits)}
  IN  {[all_samples |-> [i \in 1..shots |->
                           SubSeq(int2reg(allbit_samples[i], 2, Len(qubits)), 1, Len(qubits))],
        qreg |-> v] : allbit_samples \in [1..shots -> vals]}

sample_measure_using_apply_measure_in_place(v, qubits, shots) ==
  {[all_samples |-> [i \in 1..shots |-> m[1]],
    qreg |-> IF shots = 0 THEN v ELSE m[2]] : m \in MPS_apply_measure(v, qubits)}

\* lines 833-848: every shot measures a fresh copy of the register
sample_measure_using_apply_measure(v, qubits, shots) ==
  {[all_samples |-> all_samples, qreg |-> v] :
     all_samples \in [1..shots -> {m[1] : m \in MPS_apply_measure(v, qubits)}]}

\* qubit lists sampled
SampleLists == {<<0>>, AllQubits, <<LastQubit, 0>>}

\* the bond dimensions an MPS of NumQubits qubits can have
RegBondDims == 1..(2^(NumQubits \div 2))

\* called once, after the ops, as the controller does
SampleMeasure ==
  /\ status = "returned"
  /\ sampled = <<>>
  /\ \E qubits \in SampleLists, shots \in 0..MaxRegShots, max_bond_dim \in RegBondDims :
       LET strategy == sample_measure_strategy(sample_measure_alg, Len(qubits),
                                               max_bond_dim, shots)
           results == IF strategy = UsingProbabilities
                      THEN sample_measure_using_probabilities(qreg, qubits, shots)
                      ELSE sample_measure_using_apply_measure(qreg, qubits, shots)
       IN  \E r \in results :
             /\ qreg' = r.qreg
             /\ sampled' = <<[qubits |-> qubits, shots |-> shots, strategy |-> strategy,
                              all_samples |-> r.all_samples, before |-> qreg]>>
  /\ UNCHANGED <<creg, data, ops, pos, status, error, entry, last, init_call,
                 configVars, sel>>

\* the MPS handed to initialize_qreg(num_qubits, state): qubit 0 in |1>
GivenState == apply_x(ZeroState, 0)

\* initialize_qreg(num_qubits, state) called on the register apply_ops left,
\* with the register's number of qubits and with another
InitializeQregState ==
  /\ status = "returned"
  /\ sampled = <<>>
  /\ init_call = <<>>
  /\ \E num_qubits \in {NumQubits, NumQubits + 1} :
       LET r == initialize_qreg_state(num_qubits, GivenState, State)
       IN  /\ qreg' = r.qreg
           /\ init_call' = <<[num_qubits |-> num_qubits, state |-> GivenState,
                               before |-> qreg, error |-> r.error]>>
  /\ UNCHANGED <<creg, data, ops, pos, status, error, entry, last, sampled,
                 configVars, sel>>

\* the sampling policy is configured before the register is sampled
ConfigureSampling ==
  /\ status = "returned"
  /\ sampled = <<>>
  /\ \E config \in AlgConfigs : set_config(config)
  /\ UNCHANGED <<runVars, sel>>

Init ==
  /\ InitConfig
  /\ InitRun
  /\ sel = <<>>

Next ==
  \/ ApplyOpsCall
  \/ Barrier \/ Reset \/ Initialize \/ Measure \/ Bfunc \/ Gate \/ Snapshot
  \/ ApplyOpsReturn
  \/ ConfigureSampling
  \/ SampleMeasure
  \/ InitializeQregState

Spec == Init /\ [][Next]_vars

(***************************************************************************)
(* SpecSnapshot: apply_ops on lists that prepare a register and a          *)
(* classical register and then take snapshots of every kind.               *)
(***************************************************************************)
SnapshotOp(name, qubits) == Op("snapshot", name, qubits)

\* Z on qubit 0; X on qubit 0 with Z on the last qubit, twice that plus Z
PauliZ == << <<1, <<"Z">> >> >>
PauliXZ == << <<2, <<"Z", "X">> >>, <<1, <<"Z">> >> >>

\* the matrix of Z on the first qubit of the op; that plus |0><1| + |1><0|
\* on its second qubit
MatrixZ == << <<1, << <<0>>, << <<1, 0>>, <<0, -1>> >> >> >> >>
MatrixZX == << <<1, << <<0>>, << <<1, 0>>, <<0, -1>> >> >>,
                   << <<1>>, << <<0, 1>>, <<1, 0>> >> >> >> >>

SnapshotOps ==
  { SnapshotOp("statevector", AllQubits), SnapshotOp("memory", AllQubits),
    SnapshotOp("register", AllQubits),
    SnapshotOp("probabilities", <<0>>),
    SnapshotOp("probabilities_with_variance", <<LastQubit, 0>>),
    SnapshotOp("density_matrix", <<0>>), SnapshotOp("density_matrix", <<>>),
    SnapshotOp("density_matrix_with_variance", AllQubits),
    [SnapshotOp("expectation_value_pauli", <<0>>) EXCEPT !.params_expval_pauli = PauliZ],
    [SnapshotOp("expectation_value_pauli_with_variance", <<0, LastQubit>>)
       EXCEPT !.params_expval_pauli = PauliXZ],
    [SnapshotOp("expectation_value_pauli_single_shot", <<LastQubit>>)
       EXCEPT !.params_expval_pauli = PauliZ],
    SnapshotOp("expectation_value_pauli", <<0>>),
    [SnapshotOp("expectation_value_matrix", <<0>>) EXCEPT !.params_expval_matrix = MatrixZ],
    [SnapshotOp("expectation_value_matrix_with_variance", <<0, LastQubit>>)
       EXCEPT !.params_expval_matrix = MatrixZX],
    [SnapshotOp("expectation_value_matrix_single_shot", <<LastQubit>>)
       EXCEPT !.params_expval_matrix = MatrixZ],
    SnapshotOp("expectation_value_matrix_single_shot", <<0>>),
    SnapshotOp("bogus", AllQubits) }

\* what comes before the snapshots
PrepLists ==
  { <<>>, <<Op("gate", "h", <<0>>)>>,
    <<Op("gate", "h", <<0>>), Op("gate", "cx", <<0, LastQubit>>)>>,
    <<Op("gate", "h", <<0>>),
      [Op("measure", "measure", <<0>>) EXCEPT !.memory = <<0>>, !.registers = <<0>>]>>,
    <<Op("gate", "x", <<0>>), Op("gate", "h", <<LastQubit>>),
      [Op("measure", "measure", <<0>>) EXCEPT !.memory = <<0>>, !.registers = <<0>>]>> }

SnapshotLists ==
  {prep \o snaps : prep \in PrepLists,
                   snaps \in UNION {[1..n -> SnapshotOps] : n \in 1..MaxSnapshots}}

ApplySnapshotOps == ApplyOps(SnapshotLists)

NextSn == ApplySnapshotOps \/ Gate \/ Measure \/ Snapshot \/ ApplyOpsReturn
SpecSnapshot == Init /\ [][NextSn]_vars

(***************************************************************************)
(* Claims about the choice of strategy (SpecSample).                       *)
(***************************************************************************)
\* a call made under the heuristic policy that samples the whole register
HeuristicOnAll(c) == c.alg = HEURISTIC /\ c.num_qubits = c.state_qubits

\* C3, as stated: under the heuristic policy a call that samples all N
\* qubits of a register with N >= 26 uses the clone-and-measure strategy,
\* whatever D and the shot count.
C3_ApplyFrom26 ==
  \A c \in Calls :
    (HeuristicOnAll(c) /\ c.state_qubits >= 26) => c.strategy = UsingApplyMeasure

\* C3, amended: under the heuristic policy a call that samples all N qubits
\* of a register with N > 26 uses the clone-and-measure strategy, whatever D
\* and the shot count.
C3_ApplyAbove26 ==
  \A c \in Calls :
    (HeuristicOnAll(c) /\ c.state_qubits > 26) => c.strategy = UsingApplyMeasure

\* 27 qubits, a bond dimension above every band and a shot count above every
\* threshold: only the size makes the choice
C3_Witness ==
  \E c \in Calls :
    /\ HeuristicOnAll(c) /\ c.state_qubits = 27
    /\ c.max_bond_dim > 16
    /\ c.shots = CeilThreshold(120, 185, 17)
    /\ c.strategy = UsingApplyMeasure

\* the (c, r) of the claim's table, in tenths and hundredths; <<>> above 16
ClaimedBand(D) ==
  IF D <= 2 THEN <<120, 185>>
  ELSE IF 2 < D /\ D <= 4 THEN <<30, 175>>
  ELSE IF 4 < D /\ D <= 8 THEN <<25, 165>>
  ELSE IF 8 < D /\ D <= 16 THEN <<5, 175>>
  ELSE <<>>

\* C4: under the heuristic policy a call that samples all N qubits, N < 26,
\* uses PROB when N < 10, and otherwise uses APPLY exactly when the shot
\* count is below c * r^(N-10) for the (c, r) of the band of D, PROB in every
\* other case (every D > 16 among them).
C4_HeuristicBelow26 ==
  \A c \in Calls :
    (HeuristicOnAll(c) /\ c.state_qubits < 26) =>
      LET b == ClaimedBand(c.max_bond_dim)
          apply == /\ c.state_qubits >= 10
                   /\ b # <<>>
                   /\ c.shots < CeilThreshold(b[1], b[2], c.state_qubits - 10)
      IN  c.strategy = IF apply THEN UsingApplyMeasure ELSE UsingProbabilities

\* 25 qubits, D = 8, the first shot count that is not below 2.5 * 1.65^15
C4_Witness ==
  \E c \in Calls :
    /\ HeuristicOnAll(c) /\ c.state_qubits = 25 /\ c.max_bond_dim = 8
    /\ c.shots = CeilThreshold(25, 165, 15)
    /\ c.strategy = UsingProbabilities

\* C5: the strategy is a function of (N, D, m, policy), N the register's
\* number of qubits: two calls that agree on these choose the same strategy,
\* whatever qubit list each samples.
C5_ChoiceDeterminedByRegister ==
  \A c1, c2 \in Calls :
    ( /\ c1.state_qubits = c2.state_qubits
      /\ c1.max_bond_dim = c2.max_bond_dim
      /\ c1.shots = c2.shots
      /\ c1.alg = c2.alg ) => c1.strategy = c2.strategy

\* C6: a configured policy overrides the heuristic: after set_config with
\* the algorithm key "mps_probabilities" every call uses the
\* marginal-probability strategy, and with "mps_apply_measure" every call
\* uses clone-and-measure, whatever the sizes, D and the shot count.
C6_ConfiguredPolicyOverrides ==
  \A c \in Calls :
    /\ c.config["mps_sample_measure_algorithm"] = <<"mps_probabilities">>
         => c.strategy = UsingProbabilities
    /\ c.config["mps_sample_measure_algorithm"] = <<"mps_apply_measure">>
         => c.strategy = UsingApplyMeasure

\* PROB configured, more than 26 qubits sampled, few shots: the heuristic
\* would clone and measure
C6_Witness ==
  \E c \in Calls :
    /\ c.config["mps_sample_measure_algorithm"] = <<"mps_probabilities">>
    /\ c.num_qubits > 26 /\ c.shots = 1
    /\ c.strategy = UsingProbabilities
    /\ sample_measure_strategy(HEURISTIC, c.num_qubits, c.max_bond_dim, c.shots)
         = UsingApplyMeasure

(***************************************************************************)
(* Claims about set_config (SpecConfig).                                   *)
(***************************************************************************)
\* the default of the parameter a key sets, and the parameter
KeyIndex ==
  [k \in ConfigKeys |->
     CASE k = "matrix_product_state_truncation_threshold" -> 1
       [] k = "matrix_product_state_max_bond_dimension" -> 2
       [] k = "chop_threshold" -> 3
       [] k = "mps_parallel_threshold" -> 4
       [] k = "mps_omp_threads" -> 5
       [] k = "mps_sample_measure_algorithm" -> 6]

\* C7: every key absent from the config of the last set_config call has its
\* parameter at the default (1e-16, UINT64_MAX, 1e-8, 14, 1, HEURISTIC),
\* whatever the parameter was before the call.
C7_AbsentKeysGetDefaults ==
  \A k \in ConfigKeys :
    ~JSON_has(last_config, k) => Params[KeyIndex[k]] = Defaults[KeyIndex[k]]

\* set_config with an empty config found every parameter off its default
C7_Witness ==
  /\ last_config = NoConfig
  /\ \A i \in 1..6 : params_before[i] # Defaults[i]
  /\ Params = Defaults

\* C16: after any sequence of set_config calls the six parameters are
\* determined by the config of the last call alone: they are what that call
\* leaves when it is the first one made, whatever the calls before it, a
\* config whose algorithm key holds an unrecognized name included.
C16_LastConfigDecides ==
  Params = config_params(last_config, Defaults)

(***************************************************************************)
(* Claims about apply_ops and sample_measure on the register (Spec).       *)
(***************************************************************************)
RECURSIVE RunInOrder(_, _)
\* the states the ops of a list can leave when each acts on the state left
\* by the one before it, first to last, an op whose conditional check fails
\* leaving the state as it is, and none throws
RunInOrder(list, st) ==
  IF list = <<>> THEN {st}
  ELSE LET op == Head(list)
           results == IF check_conditional(st.creg, op) THEN apply_op(op, st) ELSE {Done(st)}
       IN  UNION {RunInOrder(Tail(list), [qreg |-> r.qreg, creg |-> r.creg, data |-> r.data])
                  : r \in {x \in results : x.error = <<>>}}

\* C1: apply_ops applies the ops one at a time in the order of the list: when
\* turn pos starts, the state is one that the ops at positions 1..pos-1 leave
\* when applied in that order from the state at the call, each on the state
\* left by the one before; the op of a turn is the one at its position; an op
\* whose conditional check fails changes neither register nor the data.
C1_OpsAppliedInListOrder ==
  /\ status = "running" => State \in RunInOrder(SubSeq(ops, 1, pos - 1), entry)
  /\ (status \in {"running", "thrown"} /\ last.index > 0) =>
       /\ last.op = ops[last.index]
       /\ ~last.ran => State = last.before

\* a conditional x that is skipped, a bfunc that sets the register bit, the
\* same conditional x applied: the last qubit is flipped once
C1_Witness ==
  /\ status = "running" /\ pos = 4 /\ Len(ops) = 3
  /\ ops[1].conditional /\ ops[2].type = "bfunc" /\ ops[3] = ops[1]
  /\ last.ran
  /\ qreg = apply_x(ZeroState, LastQubit)

\* C2: sample_measure leaves the register as it found it, whatever the
\* qubit list, the shot count and the strategy.
C2_SampleMeasureKeepsRegister ==
  sampled # <<>> => qreg = sampled[1].before

\* clone-and-measure, two shots with different outcomes on a register that
\* is not in a basis state
C2_Witness ==
  /\ sampled # <<>>
  /\ sampled[1].strategy = UsingApplyMeasure
  /\ sampled[1].shots = 2
  /\ sampled[1].all_samples[1] # sampled[1].all_samples[2]
  /\ qreg = sampled[1].before

\* the op of the last turn was applied (its conditional check passed)
LastRan == last.index > 0 /\ last.ran

ListedQubits(op) == {op.qubits[i] : i \in DOMAIN op.qubits}

\* C8: an initialize op whose qubit list names a proper subset of the
\* register's qubits fails with the "not supported" error and leaves the
\* register unchanged, lists with repeated entries as long as the register
\* among them.
C8_PartialInitializeRejected ==
  (LastRan /\ last.op.type = "initialize" /\ ListedQubits(last.op) # 0..(NumQubits - 1)) =>
    /\ status = "thrown"
    /\ error = <<"MPS_State: Partial initialization not supported yet.">>
    /\ qreg = last.before.qreg

UnknownName(op) ==
  \/ op.type = "gate" /\ op.name \notin DOMAIN gateset_
  \/ op.type = "snapshot" /\ op.name \notin DOMAIN snapshotset_

\* C9: a gate op whose name is not in gateset_, and a snapshot op whose name
\* is not in snapshotset_, fail with an error whose message holds the name,
\* and leave the register and the result data as they were.
C9_UnknownNamesRejected ==
  (LastRan /\ UnknownName(last.op)) =>
    /\ status = "thrown"
    /\ \E i \in DOMAIN error : error[i] = last.op.name
    /\ qreg = last.before.qreg
    /\ data = last.before.data

\* an unknown gate after a gate and a snapshot have acted
C9_Witness ==
  /\ status = "thrown" /\ LastRan
  /\ last.op.type = "gate" /\ last.op.name = "foo"
  /\ last.before.qreg # ZeroState /\ last.before.data # <<>>
  /\ qreg = last.before.qreg /\ data = last.before.data

\* C10: after reset(qubits) every listed qubit is in |0> (measuring it at
\* once gives 0 with certainty) and the classical memory and register are as
\* before, for every qubit list.
C10_ResetLeavesZero ==
  (LastRan /\ last.op.type = "reset" /\ status = "running") =>
    /\ \A q \in ListedQubits(last.op) :
         \A m \in MPS_apply_measure(qreg, <<q>>) : m[1] = <<0>>
    /\ creg = last.before.creg

\* C13: when the op at position i of the list fails, apply_ops ends with
\* that error: no turn follows, so no op after i is applied, and the state
\* is the one the ops before i left, not rolled back.
C13_FailuresSurfaced ==
  status = "thrown" =>
    /\ error # <<>>
    /\ LastRan /\ last.index = pos /\ last.op = ops[pos]
    /\ State \in RunInOrder(SubSeq(ops, 1, pos - 1), entry)
    /\ ~ENABLED Next

\* x, an unknown gate, h: the register keeps the x and never gets the h
C13_Witness ==
  /\ status = "thrown" /\ pos = 2 /\ Len(ops) = 3
  /\ ops[1].name = "x" /\ ops[2].name = "foo" /\ ops[3].name = "h"
  /\ entry.qreg = ZeroState
  /\ qreg = apply_x(ZeroState, 0)

C15_ShotsOutcomesPerQubit ==
  sampled # <<>> =>
    LET c == sampled[1]
    IN  /\ Len(c.all_samples) = c.shots
        /\ \A i \in 1..c.shots :
             /\ Len(c.all_samples[i]) = Len(c.qubits)
             /\ \A j \in 1..Len(c.qubits) : c.all_samples[i][j] \in {0, 1}
        /\ c.shots = 0 => c.all_samples = <<>>

\* two shots of two qubits by marginal probabilities, the first outcome 0 0
\* (int2reg pads it to two bits), the second not
C15_Witness ==
  /\ sampled # <<>>
  /\ sampled[1].strategy = UsingProbabilities
  /\ sampled[1].shots = 2 /\ Len(sampled[1].qubits) = 2
  /\ sampled[1].all_samples[1] = <<0, 0>>
  /\ sampled[1].all_samples[2] # <<0, 0>>

\* the list names every qubit of the register, each once, in some order
EveryQubitOnce(qubits) ==
  Len(qubits) = NumQubits /\ {qubits[i] : i \in DOMAIN qubits} = 0..(NumQubits - 1)

\* no qubit is listed twice
Distinct(qubits) == \A i, j \in DOMAIN qubits : qubits[i] = qubits[j] => i = j

\* C17: apply_initialize, given a state vector of the register's length and
\* a list of distinct qubits, initializes the register exactly when the list
\* holds all N qubits, in any order: such a list is accepted also when it
\* is not ascending, and a list of fewer qubits is not.  (Lists that repeat
\* a qubit are the matter of C8.)
C17_FullInitializeInAnyOrder ==
  (LastRan /\ last.op.type = "initialize" /\ Len(last.op.params) = 2^NumQubits
     /\ Distinct(last.op.qubits)) =>
    (EveryQubitOnce(last.op.qubits) <=> (status = "running" /\ error = <<>>))

(***************************************************************************)
(* Claims about initialize_qreg(num_qubits, state) (Spec).                 *)
(***************************************************************************)
\* C11: initialize_qreg(num_qubits, state) given another MPS is never
\* silently ignored: after every call either an error was raised or the
\* register is a copy of the given MPS.
C11_NeverSilentlyIgnored ==
  init_call # <<>> =>
    \/ init_call[1].error # <<>>
    \/ qreg = init_call[1].state
(***************************************************************************)
(* Claims about snapshots (SpecSnapshot).                                  *)
(***************************************************************************)
\* C12: every snapshot op, of every kind and variant, leaves the MPS
\* register and the classical register as they were before it; a snapshot
\* that is taken adds one entry to the result data and changes nothing
\* else, one that fails changes nothing.
C12_SnapshotsKeepState ==
  (LastRan /\ last.op.type = "snapshot") =>
    /\ qreg = last.before.qreg
    /\ creg = last.before.creg
    /\ IF status = "thrown" THEN data = last.before.data
       ELSE /\ Len(data) = Len(last.before.data) + 1
            /\ SubSeq(data, 1, Len(data) - 1) = last.before.data

\* the probabilities of both qubits, with variance, taken of an entangled
\* register after another snapshot
C12_Witness ==
  /\ LastRan /\ status = "running"
  /\ last.op.name = "probabilities_with_variance"
  /\ qreg = apply_cnot(apply_h(ZeroState, 0), 0, LastQubit)
  /\ Len(data) = 2
  /\ data[2].type = "probabilities" /\ data[2].variance
\* C18: the snapshot names StateOpSet declares are the names apply_snapshot
\* dispatches on (the keys of snapshotset_), and the gate names it declares
\* are the keys of gateset_: the name of every snapshot or gate op applied
\* is declared exactly when it has a handler.
C18_DeclaredNamesAreHandledNames ==
  LastRan =>
    /\ last.op.type = "snapshot" =>
         (last.op.name \in StateOpSet.snapshots <=> last.op.name \in DOMAIN snapshotset_)
    /\ last.op.type = "gate" =>
         (last.op.name \in StateOpSet.gates <=> last.op.name \in DOMAIN gateset_)

=============================================================================
